---- MODULE Spec2Model ----
(***************************************************************************)
(* PDF2Audio: the script parsers and the audio assembly of 11labs.py       *)
(* (ElevenLabs pipeline: parse_line, make_casts, generate) and of app2.py  *)
(* (OpenAI pipeline: read_text_file, generate_audio).                      *)
(*                                                                         *)
(* A Python str is a sequence of one-character strings, so that split,     *)
(* strip, startswith and the regular expressions are computed character by *)
(* character.  A bytes value is a sequence of small integers.              *)
(***************************************************************************)
EXTENDS Integers, Sequences, FiniteSets, TLC

VARIABLES
    app,            \* which of the two scripts is the running process
    casts,          \* 11labs.py: casts
    transcript,     \* 11labs.py: __transcript
    cast_to_voice,  \* 11labs.py: cast_to_voice (a dict: a function on its keys)
    dir,            \* the output directory: file name -> bytes
    op,             \* the last operation's observable outcome
    nops,           \* operations performed so far
    line,           \* parse_line's argument
    parsed,         \* parse_line's return value
    speaker_names,  \* read_text_file's speaker_names
    lines,          \* the lines of the file read_text_file reads
    dialogue,       \* read_text_file's return value
    written         \* history: the combined artifacts written so far, in order

vars == <<app, casts, transcript, cast_to_voice, dir, op, nops,
          line, parsed, speaker_names, lines, dialogue, written>>

(***************************************************************************)
(* Strings                                                                 *)
(***************************************************************************)

\* The whitespace characters of the modelled alphabet (str.strip, \s, split).
IsSpace(c) == c \in {" ", "\n"}

RECURSIVE LStrip(_)
LStrip(s) ==
    IF s = <<>> THEN <<>>
    ELSE IF IsSpace(Head(s)) THEN LStrip(Tail(s)) ELSE s

RECURSIVE RStrip(_)
RStrip(s) ==
    IF s = <<>> THEN <<>>
    ELSE IF IsSpace(s[Len(s)]) THEN RStrip(SubSeq(s, 1, Len(s) - 1)) ELSE s

\* str.strip()
Strip(s) == RStrip(LStrip(s))

\* str.find(c, from): the first index >= from holding c, 0 when there is none.
RECURSIVE Find(_, _, _)
Find(s, c, from) ==
    IF from > Len(s) THEN 0
    ELSE IF s[from] = c THEN from ELSE Find(s, c, from + 1)

\* str.startswith(p)
StartsWith(s, p) == Len(p) <= Len(s) /\ SubSeq(s, 1, Len(p)) = p

\* str.split(): the maximal runs of non-whitespace characters.
RECURSIVE Split(_)
Split(s) ==
    LET t == LStrip(s) IN
    IF t = <<>> THEN <<>>
    ELSE LET e == CHOOSE k \in 1..Len(t) :
                    /\ \A i \in 1..k : ~IsSpace(t[i])
                    /\ (k = Len(t) \/ IsSpace(t[k + 1]))
         IN <<SubSeq(t, 1, e)>> \o Split(SubSeq(t, e + 1, Len(t)))

\* sep.join(parts)
RECURSIVE Join(_, _)
Join(parts, sep) ==
    IF parts = <<>> THEN <<>>
    ELSE IF Len(parts) = 1 THEN parts[1]
    ELSE parts[1] \o sep \o Join(Tail(parts), sep)

(***************************************************************************)
(* 11labs.py: parse_line                                                   *)
(***************************************************************************)

\* A greedy group: the last ")" of the text.
RECURSIVE FindLast(_, _, _)
FindLast(s, c, from) ==
    IF from < 1 THEN 0
    ELSE IF s[from] = c THEN from ELSE FindLast(s, c, from - 1)

FindCloseGreedy(text, i) ==
    LET j == FindLast(text, ")", Len(text)) IN IF j > i THEN j ELSE 0

\* The end of the lazy group .*? of a match opened at i: the first ")" after i.
FindClose(text, i) == Find(text, ")", i + 1)

\* re.finditer(r'\((.*?)\)', text) from pos: group(1) of every match.  The
\* leftmost match opens at the first "(" and closes at the first ")" after it;
\* when that "(" has no ")" after it, no later "(" has one either.
RECURSIVE MoodMatches(_, _)
MoodMatches(text, pos) ==
    LET i == Find(text, "(", pos)
        j == IF i = 0 THEN 0 ELSE FindClose(text, i)
    IN IF i = 0 \/ j = 0 THEN <<>>
       ELSE <<SubSeq(text, i + 1, j - 1)>> \o MoodMatches(text, j + 1)

\* for match in mood_matches: mood = match.group(1).strip(); if mood: append
RECURSIVE CollectMoods(_)
CollectMoods(groups) ==
    IF groups = <<>> THEN <<>>
    ELSE LET mood == Strip(Head(groups)) IN
         (IF mood # <<>> THEN <<mood>> ELSE <<>>) \o CollectMoods(Tail(groups))

\* The start of the run \s* that ends right before index i, not before pos.
RECURSIVE SpaceRunStart(_, _, _)
SpaceRunStart(text, i, pos) ==
    IF i > pos /\ IsSpace(text[i - 1]) THEN SpaceRunStart(text, i - 1, pos) ELSE i

\* The first index after the run \s* that starts right after index j.
RECURSIVE SpaceRunEnd(_, _)
SpaceRunEnd(text, j) ==
    IF j < Len(text) /\ IsSpace(text[j + 1]) THEN SpaceRunEnd(text, j + 1) ELSE j + 1

\* re.sub(r'\s*\(.*?\)\s*', ' ', text) from pos.
RECURSIVE SubParens(_, _)
SubParens(text, pos) ==
    LET i == Find(text, "(", pos)
        j == IF i = 0 THEN 0 ELSE FindClose(text, i)
    IN IF i = 0 \/ j = 0 THEN SubSeq(text, pos, Len(text))
       ELSE SubSeq(text, pos, SpaceRunStart(text, i, pos) - 1) \o <<" ">>
            \o SubParens(text, SpaceRunEnd(text, j))

\* ' '.join(clean_text.split())
CollapseSpaces(s) == Join(Split(s), <<" ">>)

\* The fields of a line whose first ":" is at index c.
ParseFields(l, c) ==
    LET speaker == Strip(SubSeq(l, 1, c - 1))
        text    == Strip(SubSeq(l, c + 1, Len(l)))
        moods   == CollectMoods(MoodMatches(text, 1))
    IN [ok      |-> TRUE,
        speaker |-> speaker,
        text    |-> CollapseSpaces(SubParens(text, 1)),
        mood    |-> IF moods # <<>> THEN Join(moods, <<",", " ">>) ELSE <<>>]

\* line.partition(':') in place of split: a line with no ":" is all speaker,
\* and nothing is raised.
parse_line_partition(l) ==
    LET c == Find(l, ":", 1) IN
    IF c = 0 THEN [ok |-> TRUE, speaker |-> Strip(l), text |-> <<>>, mood |-> <<>>]
    ELSE ParseFields(l, c)

\* parse_line(line).  line.split(':', 1) yields one element when the line has no
\* ":", and the unpacking into (speaker, text) raises ValueError.
parse_line(l) ==
    LET c == Find(l, ":", 1) IN
    IF c = 0 THEN [ok |-> FALSE] ELSE ParseFields(l, c)

(***************************************************************************)
(* Files and dicts                                                         *)
(***************************************************************************)

\* A dict with no key; a directory with no file.
EmptyDict == [k \in {} |-> <<>>]

\* d[k] = v
DictSet(d, k, v) == [x \in DOMAIN d \cup {k} |-> IF x = k THEN v ELSE d[x]]

\* open(path, 'wb').write(bytes): creates the file or replaces its content.
WriteFile(d, name, bytes) == DictSet(d, name, bytes)

DigitChars == <<"0", "1", "2", "3", "4", "5", "6", "7", "8", "9">>

IsDigit(c) == \E k \in 1..10 : DigitChars[k] = c

DigitVal(c) == (CHOOSE k \in 1..10 : DigitChars[k] = c) - 1

\* str(n) for n >= 0
RECURSIVE DecimalDigits(_)
DecimalDigits(n) ==
    IF n < 10 THEN <<DigitChars[n + 1]>>
    ELSE Append(DecimalDigits(n \div 10), DigitChars[(n % 10) + 1])

RECURSIVE ZeroPad(_, _)
ZeroPad(ds, width) == IF Len(ds) >= width THEN ds ELSE ZeroPad(<<"0">> \o ds, width)

\* f"{n:03d}"
Format03d(n) == ZeroPad(DecimalDigits(n), 3)

\* int(digits)
RECURSIVE ParseInt(_)
ParseInt(ds) ==
    IF ds = <<>> THEN 0
    ELSE 10 * ParseInt(SubSeq(ds, 1, Len(ds) - 1)) + DigitVal(ds[Len(ds)])

\* A file name is its fixed stem, the characters of its number, its extension.
FileName(stem, n) == <<stem>> \o Format03d(n) \o <<".mp3">>

\* The start of the run \d+ that ends at index e of a name.
RECURSIVE DigitRunStart(_, _)
DigitRunStart(name, e) ==
    IF e >= 1 /\ IsDigit(name[e]) THEN DigitRunStart(name, e - 1) ELSE e + 1

\* re.search(r'(\d+)\.mp3$', f): group(1), <<>> when there is no match.
TrailingNumber(name) ==
    IF Len(name) >= 2 /\ name[Len(name)] = ".mp3"
    THEN SubSeq(name, DigitRunStart(name, Len(name) - 1), Len(name) - 1)
    ELSE <<>>

SetMax(S) == CHOOSE m \in S : \A x \in S : x <= m

\* The highest number present, not the one after it.
NextNumberNoIncrement(numbers) == SetMax(numbers)

NextNumber(numbers) == SetMax(numbers) + 1

\* get_next_file_number(directory), the same function in both scripts.
get_next_file_number(d) ==
    LET existing_files == {f \in DOMAIN d : f[Len(f)] = ".mp3"}
        numbers == {ParseInt(TrailingNumber(f)) :
                       f \in {g \in existing_files : TrailingNumber(g) # <<>>}}
    IN IF existing_files = {} THEN 1
       ELSE IF numbers # {} THEN NextNumber(numbers) ELSE 1

(***************************************************************************)
(* 11labs.py: make_casts                                                   *)
(***************************************************************************)

\* Scripts have at most this many lines.
MaxScriptLines == 2

\* The lines a script is made of: two speakers, a mood, a line with no ":",
\* a comment, a section marker and a blank line.
LineA == <<"A", ":", " ", "x", "\n">>
LineB == <<"B", ":", "(", "m", ")", "y", "\n">>
LineX == <<"x", "\n">>
LineComment == <<"#", "c", "\n">>
LineSection == <<"[", "s", "]", "\n">>
LineBlank == <<"\n">>

ScriptLines == {LineA, LineB, LineX, LineComment, LineSection, LineBlank}

\* Every script of at most MaxScriptLines lines.
Scripts == UNION {[1..k -> ScriptLines] : k \in 0..MaxScriptLines}

\* The scripts uploaded before a run: empty, one to three utterances, a
\* skipped line, and a line with no ":" after and before a speaker's line.
PipelineScripts ==
    { <<>>, <<LineA>>, <<LineB, LineA>>, <<LineA, LineB, LineA>>,
      <<LineComment, LineB>>, <<LineA, LineX>>, <<LineX, LineA>> }

\* The speakers of those scripts.
ScriptSpeakers == { <<"A">>, <<"B">> }

\* if line.startswith("\n") or line.startswith("#") or line.startswith("[")
IsSkipped(l) ==
    StartsWith(l, <<"\n">>) \/ StartsWith(l, <<"#">>) \/ StartsWith(l, <<"[">>)

\* if speaker not in casts: casts.append(speaker)
InSeq(x, s) == \E i \in 1..Len(s) : s[i] = x

AddCast(cs, speaker) == IF InSeq(speaker, cs) THEN cs ELSE Append(cs, speaker)

\* casts left as the previous script made it.
KeptCasts(cs) == cs

\* The list make_casts starts from: casts.clear().
ClearedCasts(cs) == <<>>

\* The for loop of make_casts from line i on; it stops where parse_line raises,
\* with casts and __transcript as the lines before have left them.
RECURSIVE ParseLoop(_, _, _, _)
ParseLoop(script, i, cs, tr) ==
    IF i > Len(script) THEN [ok |-> TRUE, casts |-> cs, transcript |-> tr]
    ELSE IF IsSkipped(script[i]) THEN ParseLoop(script, i + 1, cs, tr)
    ELSE LET r == parse_line(script[i]) IN
         IF ~r.ok THEN [ok |-> FALSE, casts |-> cs, transcript |-> tr]
         ELSE ParseLoop(script, i + 1, AddCast(cs, r.speaker),
                        Append(tr, [speaker |-> r.speaker, text |-> r.text, mood |-> r.mood]))

(***************************************************************************)
(* 11labs.py: generate                                                     *)
(***************************************************************************)

\* voices_dict once get_voices has filled it from the provider's catalog.
voices_dict == ("v1" :> "id1") @@ ("v2" :> "id2")

\* What a voice dropdown passes to generate: one of the catalog's names.
VoiceChoices == DOMAIN voices_dict

\* generate's *voices: one value per dropdown rendered, that is per member of
\* the cast of some parsed script.
VoiceTuples == UNION {[1..k -> VoiceChoices] : k \in 0..Cardinality(ScriptSpeakers)}

\* What client.text_to_speech.convert yields: the chunks of a byte stream,
\* some of them possibly empty, or an error.
Responses == { <<<<1>>>>, << <<2>>, <<>>, <<3>> >> }

SynthFailure == [ok |-> FALSE]

SynthOutcomes == {[ok |-> TRUE, response |-> r] : r \in Responses} \cup {SynthFailure}

\* for chunk in response: if chunk: audio_stream.write(chunk)
RECURSIVE StreamBytes(_)
StreamBytes(response) ==
    IF response = <<>> THEN <<>>
    ELSE (IF Head(response) # <<>> THEN Head(response) ELSE <<>>)
         \o StreamBytes(Tail(response))

\* The new bytes put in front.
CombinePrepended(combined_audio, bytes) == bytes \o combined_audio

\* combined_audio += stream.getvalue()
Combine(combined_audio, bytes) == combined_audio \o bytes

\* for i, v in enumerate(voices): cast_to_voice[casts[i]] = voices[i], from the
\* i-th voice on; casts[i] raises IndexError past the end of casts, the
\* assignments made before it kept.
RECURSIVE AssignVoices(_, _, _, _)
AssignVoices(c2v, cs, voices, i) ==
    IF i > Len(voices) THEN [ok |-> TRUE, dict |-> c2v]
    ELSE IF i > Len(cs) THEN [ok |-> FALSE, dict |-> c2v]
    ELSE AssignVoices(DictSet(c2v, cs[i], voices[i]), cs, voices, i + 1)

\* The dict the run starts from: the module-level cast_to_voice, as it is.
StartingVoices(c2v) == c2v

\* voices_dict[cast_to_voice[speaker]] raises KeyError on either lookup.
HasVoice(c2v, speaker) == speaker \in DOMAIN c2v /\ c2v[speaker] \in DOMAIN voices_dict

\* The arguments of one text_to_speech_stream call: mood, when there is one, is
\* both previous_text and next_text.
SynthCall(u, voice_id) ==
    [text |-> u.text, voice_id |-> voice_id,
     previous_text |-> IF u.mood # <<>> THEN u.mood ELSE <<"None">>,
     next_text     |-> IF u.mood # <<>> THEN u.mood ELSE <<"None">>]

\* The for loop of generate from utterance i on (i = 1 is Python's index 0).
\* acc holds the directory, combined_audio, the calls issued and the bytes each
\* returned.
RECURSIVE SynthLoop(_, _, _, _, _)
SynthLoop(tr, c2v, outcome, i, acc) ==
    IF i > Len(tr) THEN [acc EXCEPT !.status = "ok"]
    ELSE IF ~HasVoice(c2v, tr[i].speaker)
    THEN [acc EXCEPT !.status = "KeyError", !.failed_at = i]
    ELSE LET call == SynthCall(tr[i], voices_dict[c2v[tr[i].speaker]]) IN
         IF ~outcome[i].ok
         THEN [acc EXCEPT !.status = "SynthesisError", !.failed_at = i,
                          !.calls = Append(@, call)]
         ELSE LET bytes == StreamBytes(outcome[i].response) IN
              SynthLoop(tr, c2v, outcome, i + 1,
                        [acc EXCEPT !.dir = WriteFile(@, FileName("audio_chunk_", i - 1), bytes),
                                    !.combined = Combine(@, bytes),
                                    !.calls = Append(@, call),
                                    !.chunks = Append(@, bytes)])

NoFile == <<>>

RunStart(d) ==
    [status |-> "running", failed_at |-> 0, dir |-> d, combined |-> <<>>,
     calls |-> <<>>, chunks |-> <<>>, artifact |-> NoFile]

\* The combined artifact written whether or not the loop completed.
WriteCombinedAlways(acc, stem) ==
    LET filename == FileName(stem, get_next_file_number(acc.dir)) IN
    [acc EXCEPT !.dir = WriteFile(@, filename, acc.combined), !.artifact = filename]

\* The combined artifact: named after get_next_file_number, written last.
WriteCombined(acc, stem) ==
    IF acc.status # "ok" THEN acc
    ELSE LET filename == FileName(stem, get_next_file_number(acc.dir)) IN
         [acc EXCEPT !.dir = WriteFile(@, filename, acc.combined), !.artifact = filename]

\* generate(file, model, ..., *voices) on the module's state; the result holds
\* the dict and the directory it leaves, and what the run did.
generate(voices, outcome) ==
    IF transcript = <<>>
    THEN [dict |-> cast_to_voice, run |-> [RunStart(dir) EXCEPT !.status = "AssertionError"]]
    ELSE LET a == AssignVoices(StartingVoices(cast_to_voice), casts, voices, 1) IN
         IF ~a.ok
         THEN [dict |-> a.dict, run |-> [RunStart(dir) EXCEPT !.status = "IndexError"]]
         ELSE IF DOMAIN a.dict = {}
         THEN [dict |-> a.dict, run |-> [RunStart(dir) EXCEPT !.status = "AssertionError"]]
         ELSE [dict |-> a.dict,
               run  |-> WriteCombined(SynthLoop(transcript, a.dict, outcome, 1, RunStart(dir)),
                                      "result_audio_")]

\* What a run leaves for inspection.
RunRecord(kind, voices, run) ==
    [kind |-> kind, status |-> run.status, failed_at |-> run.failed_at, voices |-> voices,
     calls |-> run.calls, chunks |-> run.chunks, artifact |-> run.artifact]

(***************************************************************************)
(* app2.py: read_text_file                                                 *)
(***************************************************************************)

\* current_speaker = None
NoSpeaker == [set |-> FALSE, name |-> <<>>]

\* Python's truth of current_speaker: neither None nor "".
Truthy(cs) == cs.set /\ cs.name # <<>>

\* The first speaker of speaker_names from index k on for which
\* line.startswith(f"{speaker}:"); 0 when there is none.
RECURSIVE MatchSpeaker(_, _, _)
MatchSpeaker(l, names, k) ==
    IF k > Len(names) THEN 0
    ELSE IF StartsWith(l, names[k] \o <<":">>) THEN k
    ELSE MatchSpeaker(l, names, k + 1)

\* if current_speaker and current_text: dialogue.append(DialogueItem(...))
Flush(st) ==
    IF Truthy(st.current_speaker) /\ st.current_text # <<>>
    THEN Append(st.dialogue,
                [text |-> Strip(st.current_text), speaker |-> st.current_speaker.name])
    ELSE st.dialogue

\* if current_speaker: current_text += " " + line; else: the first speaker's.
Continuation(st, l, names) ==
    IF Truthy(st.current_speaker)
    THEN [st EXCEPT !.current_text = @ \o <<" ">> \o l]
    ELSE [st EXCEPT !.current_speaker = [set |-> TRUE, name |-> names[1]],
                    !.current_text = l]

\* One iteration of the for loop over the file's lines.
ReadLine(st, raw, names) ==
    LET l0 == IF StartsWith(raw, <<"BOM">>) THEN Tail(raw) ELSE raw
        l  == Strip(l0)
        k  == MatchSpeaker(l, names, 1)
    IN IF l = <<>> THEN st
       ELSE IF k # 0
       THEN [dialogue        |-> Flush(st),
             current_speaker |-> [set |-> TRUE, name |-> names[k]],
             current_text    |-> Strip(SubSeq(l, Len(names[k]) + 2, Len(l)))]
       ELSE Continuation(st, l, names)

RECURSIVE ReadLines(_, _, _, _)
ReadLines(st, flines, names, i) ==
    IF i > Len(flines) THEN st
    ELSE ReadLines(ReadLine(st, flines[i], names), flines, names, i + 1)

ReadStart == [dialogue |-> <<>>, current_speaker |-> NoSpeaker, current_text |-> <<>>]

\* read_text_file(file_path, speaker_names): the dialogue's items.
read_text_file(flines, names) == Flush(ReadLines(ReadStart, flines, names, 1))

(***************************************************************************)
(* app2.py: generate_audio                                                 *)
(***************************************************************************)

\* The speaker name and voice boxes of the form.
NumSpeakers == 6

\* What the form's six name boxes and six voice dropdowns hold.
SpeakerForms ==
    { [names  |-> << <<"A">>, <<"B">>, <<"C">>, <<"D">>, <<"E">>, <<"F">> >>,
       voices |-> <<"alloy", "echo", "alloy", "alloy", "alloy", "alloy">>],
      [names  |-> << <<"B">>, <<"B">>, <<>>, <<"D">>, <<"E">>, <<"F">> >>,
       voices |-> <<"alloy", "nova", "fable", "alloy", "alloy", "alloy">>] }

\* speaker_voices = {speaker_1_name: speaker_1_voice, ...}: a later box wins.
RECURSIVE SpeakerVoices(_, _, _)
SpeakerVoices(names, voices, i) ==
    IF i > NumSpeakers THEN EmptyDict
    ELSE LET rest == SpeakerVoices(names, voices, i + 1) IN
         IF names[i] \in DOMAIN rest THEN rest ELSE DictSet(rest, names[i], voices[i])

\* get_mp3: for chunk in response.iter_bytes(): file.write(chunk)
RECURSIVE Mp3Bytes(_)
Mp3Bytes(response) ==
    IF response = <<>> THEN <<>> ELSE Head(response) \o Mp3Bytes(Tail(response))

\* The for loop of generate_audio from item i on (enumerate starts at 1).
RECURSIVE AudioLoop(_, _, _, _, _)
AudioLoop(items, speaker_voices, outcome, i, acc) ==
    IF i > Len(items) THEN [acc EXCEPT !.status = "ok"]
    ELSE LET call == [text |-> items[i].text, voice |-> speaker_voices[items[i].speaker]] IN
         IF ~outcome[i].ok
         THEN [acc EXCEPT !.status = "SynthesisError", !.failed_at = i,
                          !.calls = Append(@, call)]
         ELSE LET audio_chunk == Mp3Bytes(outcome[i].response) IN
              AudioLoop(items, speaker_voices, outcome, i + 1,
                        [acc EXCEPT !.combined = Combine(@, audio_chunk),
                                    !.dir = WriteFile(@, FileName("audio_chunk_", i), audio_chunk),
                                    !.calls = Append(@, call),
                                    !.chunks = Append(@, audio_chunk)])

\* The files uploaded to generate_audio: empty, one item, two items with a
\* continuation line.
AudioFiles ==
    { <<>>, <<LineA>>, <<LineB, LineX, LineA>> }

\* generate_audio once the key and the file suffix are accepted.
generate_audio(form, flines, outcome) ==
    WriteCombined(AudioLoop(read_text_file(flines, form.names),
                            SpeakerVoices(form.names, form.voices, 1),
                            outcome, 1, RunStart(dir)),
                  "combined_audio_")

(***************************************************************************)
(* The two processes                                                       *)
(***************************************************************************)

\* Operations (uploads and runs) in one behaviour.
MaxOps == 3

\* The state before any call: no process, no parsed script, no file.
NoOp == [kind |-> "none", status |-> "none"]
NotParsed == [ok |-> FALSE, pending |-> TRUE]
NoDialogue == [pending |-> TRUE, items |-> <<>>]

PipelineIdle ==
    /\ casts = <<>>
    /\ transcript = <<>>
    /\ cast_to_voice = EmptyDict
    /\ dir = EmptyDict
    /\ op = NoOp
    /\ nops = 0
    /\ written = <<>>

ParseIdle ==
    /\ line = <<>>
    /\ parsed = NotParsed

StrictIdle ==
    /\ speaker_names = <<>>
    /\ lines = <<>>
    /\ dialogue = NoDialogue

\* Either script has been started: its module-level state is set up, get_voices
\* has run, and the output directory holds nothing yet.
Init ==
    /\ app \in {"11labs", "app2"}
    /\ PipelineIdle
    /\ ParseIdle
    /\ StrictIdle

\* make_casts(file) on a script of the set S.
MakeCastsFrom(S) ==
    /\ app = "11labs"
    /\ nops < MaxOps
    /\ \E script \in S :
         \E r \in {ParseLoop(script, 1, ClearedCasts(casts), <<>>)} :
         /\ casts' = r.casts
         /\ transcript' = r.transcript
         /\ op' = [kind |-> "make_casts", status |-> IF r.ok THEN "ok" ELSE "ValueError",
                   script |-> script]
    /\ nops' = nops + 1
    /\ UNCHANGED <<app, cast_to_voice, dir, line, parsed, speaker_names, lines,
                   dialogue, written>>

\* file.upload(fn=make_casts): a script is uploaded.
MakeCasts == MakeCastsFrom(PipelineScripts)

\* submit_btn.click(fn=generate): a run of the ElevenLabs pipeline; outcome[i]
\* is what the provider answers if the call for utterance i is issued.
Generate ==
    /\ app = "11labs"
    /\ nops < MaxOps
    /\ \E voices \in VoiceTuples, outcome \in [1..Len(transcript) -> SynthOutcomes] :
         \E r \in {generate(voices, outcome)} :
         /\ cast_to_voice' = r.dict
         /\ dir' = r.run.dir
         /\ op' = RunRecord("generate", voices, r.run)
         /\ written' = IF r.run.status = "ok" THEN Append(written, r.run.artifact)
                       ELSE written
    /\ nops' = nops + 1
    /\ UNCHANGED <<app, casts, transcript, line, parsed, speaker_names, lines, dialogue>>

\* submit_btn.click(fn=generate_audio) with no API key or with a file that is
\* not a .txt: gr.Error before anything is read or written.
GenerateAudioRejected ==
    /\ app = "app2"
    /\ nops < MaxOps
    /\ op' = RunRecord("generate_audio", <<>>, [RunStart(dir) EXCEPT !.status = "Error"])
    /\ nops' = nops + 1
    /\ UNCHANGED <<app, casts, transcript, cast_to_voice, dir, line, parsed,
                   speaker_names, lines, dialogue, written>>

\* submit_btn.click(fn=generate_audio): a run of the OpenAI pipeline.
GenerateAudio ==
    /\ app = "app2"
    /\ nops < MaxOps
    /\ \E form \in SpeakerForms, flines \in AudioFiles :
         \E outcome \in [1..Len(read_text_file(flines, form.names)) -> SynthOutcomes] :
            \E run \in {generate_audio(form, flines, outcome)} :
            /\ dir' = run.dir
            /\ op' = RunRecord("generate_audio", <<>>, run)
            /\ written' = IF run.status = "ok" THEN Append(written, run.artifact)
                          ELSE written
    /\ nops' = nops + 1
    /\ UNCHANGED <<app, casts, transcript, cast_to_voice, line, parsed,
                   speaker_names, lines, dialogue>>

Next == MakeCasts \/ Generate \/ GenerateAudioRejected \/ GenerateAudio

Spec == Init /\ [][Next]_vars

(***************************************************************************)
(* Properties of the runs                                                  *)
(***************************************************************************)

IsRun(o) == o.kind \in {"generate", "generate_audio"}

\* This step is a run of either pipeline that has ended as `status`.
RunStep(status) == nops' = nops + 1 /\ IsRun(op') /\ op'.status = status

\* The number a file name ends with.
SuffixOf(name) == ParseInt(TrailingNumber(name))

RECURSIVE ConcatAll(_)
ConcatAll(chunks) ==
    IF chunks = <<>> THEN <<>> ELSE Head(chunks) \o ConcatAll(Tail(chunks))

RECURSIVE SumLen(_)
SumLen(chunks) ==
    IF chunks = <<>> THEN 0 ELSE Len(Head(chunks)) + SumLen(Tail(chunks))

\* Some member of the cast got no voice from the run's *voices.
SomeCastUnassigned == \E i \in 1..Len(casts) : i > Len(op.voices)

\* C1: in generate, when at least one Cast member has no voice assignment
\* supplied, the run fails before any synthesis call is issued: no call
\* reaches the provider and no chunk file is written by that run.
C1_NoSynthesisWithoutAssignment ==
    (op.kind = "generate" /\ transcript # <<>> /\ SomeCastUnassigned) =>
        /\ op.status # "ok"
        /\ op.calls = <<>>
        /\ op.chunks = <<>>

\* C2: whatever runs came before in the same output directory, the combined
\* artifact a run writes does not have the name of a file already present,
\* and its numeric suffix is strictly greater than the suffix of every
\* combined artifact written by an earlier run.
C2_FreshIncreasingArtifact ==
    [][RunStep("ok") =>
          /\ op'.artifact \notin DOMAIN dir
          /\ op'.artifact \in DOMAIN dir'
          /\ \A i \in 1..Len(written) : SuffixOf(op'.artifact) > SuffixOf(written[i])]_vars

\* A second artifact has been written beside the first and the chunk files.
C2_Witness ==
    /\ op.kind = "generate" /\ op.status = "ok"
    /\ Len(written) = 2
    /\ op.artifact = written[2]
    /\ written[1] \in DOMAIN dir
    /\ Len(op.chunks) >= 1

\* The chunk file generate writes for the utterance at position i (from 1).
ChunkFile(i) == FileName("audio_chunk_", i - 1)

\* C3: when the synthesis call for the utterance at position k fails, generate
\* aborts there: the calls issued are those for the utterances up to k and
\* none after, no combined artifact is written, the chunk files of the
\* utterances before k hold the bytes returned for them, and every other
\* file of the directory is as it was.
C3_AbortsAtFailedUtterance ==
    [][(RunStep("SynthesisError") /\ op'.kind = "generate") =>
          LET k == op'.failed_at IN
          /\ Len(op'.calls) = k
          /\ \A i \in 1..k : op'.calls[i].text = transcript[i].text
          /\ op'.artifact = NoFile
          /\ written' = written
          /\ Len(op'.chunks) = k - 1
          /\ DOMAIN dir' = DOMAIN dir \cup {ChunkFile(i) : i \in 1..(k - 1)}
          /\ \A i \in 1..(k - 1) : dir'[ChunkFile(i)] = op'.chunks[i]
          /\ \A f \in DOMAIN dir \ {ChunkFile(i) : i \in 1..(k - 1)} : dir'[f] = dir[f]]_vars

\* The second call of a run has failed after the first chunk was written.
C3_Witness ==
    /\ op.kind = "generate" /\ op.status = "SynthesisError"
    /\ op.failed_at = 2
    /\ Len(op.calls) = 2
    /\ ChunkFile(1) \in DOMAIN dir

\* C4: after a successful run the combined artifact is the concatenation, in
\* utterance order, of the bytes each synthesis call returned, and its length
\* is the sum of their lengths; in generate there is one call per utterance of
\* the transcript, in the transcript's order.
C4_ArtifactIsChunksInOrder ==
    (IsRun(op) /\ op.status = "ok") =>
        /\ op.artifact \in DOMAIN dir
        /\ dir[op.artifact] = ConcatAll(op.chunks)
        /\ Len(dir[op.artifact]) = SumLen(op.chunks)
        /\ Len(op.calls) = Len(op.chunks)
        /\ op.kind = "generate" =>
              /\ Len(op.calls) = Len(transcript)
              /\ \A i \in 1..Len(transcript) : op.calls[i].text = transcript[i].text

\* Two calls have returned different bytes, and other files are in place.
C4_Witness ==
    /\ op.kind = "generate" /\ op.status = "ok"
    /\ op.chunks = << <<2, 3>>, <<1>> >>
    /\ Len(written) = 2

\* C5: when make_casts meets a line with no ":" the whole script is rejected:
\* no utterance and no Cast member of it is retained, so that a following
\* generate has nothing to synthesize.
C5_FailedParseKeepsNothing ==
    (op.kind = "make_casts" /\ op.status = "ValueError") =>
        /\ transcript = <<>>
        /\ casts = <<>>

\* C7: the speaker-to-voice mapping of a run holds only the assignments
\* supplied to that run; none written by an earlier run is visible to it.
C7_OnlySuppliedAssignments ==
    op.kind = "generate" =>
        \A s \in DOMAIN cast_to_voice :
            \E i \in 1..Len(op.voices) :
                i <= Len(casts) /\ casts[i] = s /\ op.voices[i] = cast_to_voice[s]

(***************************************************************************)
(* make_casts on every script                                              *)
(***************************************************************************)

InitCasts ==
    /\ app = "11labs"
    /\ PipelineIdle
    /\ ParseIdle
    /\ StrictIdle

UploadScript == MakeCastsFrom(Scripts)

NextCasts == UploadScript

SpecCasts == InitCasts /\ [][NextCasts]_vars

\* The speakers of the stored utterances, in order.
TranscriptSpeakers == [i \in 1..Len(transcript) |-> transcript[i].speaker]

\* The position of the first utterance of a speaker.
FirstUtteranceOf(speaker) ==
    CHOOSE i \in 1..Len(transcript) :
        /\ transcript[i].speaker = speaker
        /\ \A j \in 1..(i - 1) : transcript[j].speaker # speaker

\* The lines of a script that make_casts does not skip.
UtteranceLines(script) == SelectSeq(script, LAMBDA l : ~IsSkipped(l))

HasColon(l) == \E i \in 1..Len(l) : l[i] = ":"

\* The text of a line before its first ":", stripped.
SpeakerTag(l) == Strip(SubSeq(l, 1, (CHOOSE i \in 1..Len(l) : l[i] = ":" /\ \A j \in 1..(i - 1) : l[j] # ":") - 1))

\* C6: after any sequence of make_casts calls the Cast holds exactly the
\* distinct speakers of the utterances of the script parsed last, each once,
\* in order of first appearance; every stored utterance's speaker is in the
\* Cast, and a speaker of an earlier script is in it only if the new script
\* has it too.
C6_CastIsSpeakersOfLastScript ==
    op.kind = "make_casts" =>
        /\ \A i, j \in 1..Len(casts) : i # j => casts[i] # casts[j]
        /\ {casts[i] : i \in 1..Len(casts)} = {transcript[i].speaker : i \in 1..Len(transcript)}
        /\ \A i, j \in 1..Len(casts) :
              i < j => FirstUtteranceOf(casts[i]) < FirstUtteranceOf(casts[j])
        /\ \A i \in 1..Len(casts) :
              \E k \in 1..Len(op.script) :
                  /\ ~IsSkipped(op.script[k])
                  /\ HasColon(op.script[k])
                  /\ SpeakerTag(op.script[k]) = casts[i]
        /\ op.status = "ok" =>
              TranscriptSpeakers = [i \in 1..Len(UtteranceLines(op.script)) |->
                                       SpeakerTag(UtteranceLines(op.script)[i])]

\* A second script, of two speakers, has replaced a first one.
C6_Witness ==
    /\ op.kind = "make_casts" /\ op.status = "ok"
    /\ nops = 2
    /\ casts = << <<"B">>, <<"A">> >>
    /\ Len(transcript) = 2

\* make_casts as the claim has it: a line with no ":" is appended, after one
\* space, to the text of the utterance before it, and fails only when there
\* is none.
RECURSIVE ContinuationParse(_, _, _)
ContinuationParse(script, i, tr) ==
    IF i > Len(script) THEN [ok |-> TRUE, transcript |-> tr]
    ELSE IF IsSkipped(script[i]) THEN ContinuationParse(script, i + 1, tr)
    ELSE IF HasColon(script[i])
    THEN LET r == parse_line(script[i]) IN
         ContinuationParse(script, i + 1,
             Append(tr, [speaker |-> r.speaker, text |-> r.text, mood |-> r.mood]))
    ELSE IF tr = <<>> THEN [ok |-> FALSE, transcript |-> tr]
    ELSE ContinuationParse(script, i + 1,
             [tr EXCEPT ![Len(tr)].text = @ \o <<" ">> \o Strip(script[i])])

\* C10 (as stated): in simple mode a line with no ":" after a speaker-tagged
\* line is a continuation, appended after one space to the open utterance's
\* text and creating no utterance; only one before any speaker-tagged line is
\* a parse failure.
C10_ContinuationAfterSpeaker ==
    op.kind = "make_casts" =>
        LET c == ContinuationParse(op.script, 1, <<>>) IN
        /\ (op.status = "ok") = c.ok
        /\ c.ok => transcript = c.transcript

\* The position of the first line that is neither skipped nor has a ":".
FirstUntagged(script) ==
    IF \E i \in 1..Len(script) : ~IsSkipped(script[i]) /\ ~HasColon(script[i])
    THEN CHOOSE i \in 1..Len(script) :
             /\ ~IsSkipped(script[i]) /\ ~HasColon(script[i])
             /\ \A j \in 1..(i - 1) : IsSkipped(script[j]) \/ HasColon(script[j])
    ELSE 0

\* C10 (amended): in simple mode a line with no ":" that is not skipped is a
\* parse failure wherever it comes: make_casts raises at that line, nothing is
\* appended to the utterance before it and no utterance is made of it, and the
\* utterances of the lines before it are what the transcript holds.
C10_UntaggedLineAlwaysFails ==
    op.kind = "make_casts" =>
        LET p == FirstUntagged(op.script)
            before == UtteranceLines(IF p = 0 THEN op.script ELSE SubSeq(op.script, 1, p - 1))
        IN /\ (op.status = "ValueError") = (p # 0)
           /\ Len(transcript) = Len(before)
           /\ \A i \in 1..Len(before) :
                 LET r == parse_line(before[i]) IN
                 /\ transcript[i].speaker = r.speaker
                 /\ transcript[i].text = r.text
                 /\ transcript[i].mood = r.mood

\* A line with no ":" has come after a speaker's line.
C10_Witness ==
    /\ op.kind = "make_casts" /\ op.status = "ValueError"
    /\ Len(transcript) = 1
    /\ FirstUntagged(op.script) = 2

(***************************************************************************)
(* parse_line as a function of its argument                                *)
(***************************************************************************)

\* The longest utterance text parse_line is applied to.
MaxTextLen == 6

TextAlphabet == {"a", "b", " ", "(", ")"}

Texts == UNION {[1..k -> TextAlphabet] : k \in 0..MaxTextLen}

\* A script line "S:<text>" for every text.
InitParse ==
    /\ app = "none"
    /\ PipelineIdle
    /\ StrictIdle
    /\ \E t \in Texts : line = <<"S", ":">> \o t
    /\ parsed = NotParsed

ParseLine ==
    /\ parsed = NotParsed
    /\ parsed' = parse_line(line)
    /\ UNCHANGED <<app, casts, transcript, cast_to_voice, dir, op, nops,
                   line, speaker_names, lines, dialogue, written>>

NextParse == ParseLine

SpecParse == InitParse /\ [][NextParse]_vars

\* The utterance text parse_line works on: what follows the first ":", stripped.
UtteranceText == Strip(SubSeq(line, Find(line, ":", 1) + 1, Len(line)))

\* The parenthesized groups of a text, read by nesting depth: a group runs from
\* a "(" at depth 0 to the ")" that closes it; a ")" with no open "(" and a "("
\* never closed form no group.
RECURSIVE ScanGroups(_, _, _, _)
ScanGroups(text, i, depth, cur) ==
    IF i > Len(text) THEN <<>>
    ELSE LET c == text[i] IN
         IF c = "(" THEN
             ScanGroups(text, i + 1, depth + 1, IF depth = 0 THEN <<>> ELSE Append(cur, c))
         ELSE IF c = ")" THEN
             IF depth = 0 THEN ScanGroups(text, i + 1, 0, <<>>)
             ELSE IF depth = 1 THEN <<cur>> \o ScanGroups(text, i + 1, 0, <<>>)
             ELSE ScanGroups(text, i + 1, depth - 1, Append(cur, c))
         ELSE ScanGroups(text, i + 1, depth, IF depth = 0 THEN <<>> ELSE Append(cur, c))

\* Every "(" is closed by a ")" before the next "(", and no ")" comes unopened.
RECURSIVE FlatBalanced(_, _, _)
FlatBalanced(text, i, open) ==
    IF i > Len(text) THEN ~open
    ELSE IF text[i] = "(" THEN ~open /\ FlatBalanced(text, i + 1, TRUE)
    ELSE IF text[i] = ")" THEN open /\ FlatBalanced(text, i + 1, FALSE)
    ELSE FlatBalanced(text, i + 1, open)

\* The trimmed contents of the groups that are not empty once trimmed.
TrimmedNonEmpty(groups) ==
    LET t == [i \in 1..Len(groups) |-> Strip(groups[i])]
    IN SelectSeq(t, LAMBDA g : g # <<>>)

NoParenLeft(s) == \A i \in 1..Len(s) : s[i] \notin {"(", ")"}

\* No leading, trailing or repeated whitespace: every whitespace character is
\* one " " strictly inside, followed by a non-whitespace character.
Tidy(s) ==
    \A i \in 1..Len(s) :
        IsSpace(s[i]) => /\ s[i] = " "
                         /\ 1 < i /\ i < Len(s)
                         /\ ~IsSpace(s[i + 1])

MoodAndTextAsClaimed ==
    /\ parsed.mood = Join(TrimmedNonEmpty(ScanGroups(UtteranceText, 1, 0, <<>>)), <<",", " ">>)
    /\ NoParenLeft(parsed.text)
    /\ Tidy(parsed.text)

MaxFileLines == 3
MaxNames == 2

\* Names typed in the form's boxes: two plain ones, an empty box, and a name
\* that holds a ":".
StrictNames == { <<"A">>, <<"B">>, <<>>, <<"A", ":">> }

NameLists == UNION {[1..k -> StrictNames] : k \in 1..MaxNames}

\* The lines of the file: the lines of a script, a speaker with no text, a
\* line that starts with ":", and one with two ":".
StrictLines ==
    { LineA, LineB, LineX, LineBlank,
      <<"A", ":", "\n">>,
      <<":", "h", "\n">>,
      <<" ", "A", ":", ":", "z", "\n">> }

StrictFiles == UNION {[1..k -> StrictLines] : k \in 0..MaxFileLines}

InitStrict ==
    /\ app = "app2"
    /\ PipelineIdle
    /\ ParseIdle
    /\ speaker_names \in NameLists
    /\ lines \in StrictFiles
    /\ dialogue = NoDialogue

ReadTextFile ==
    /\ dialogue = NoDialogue
    /\ dialogue' = [pending |-> FALSE, items |-> read_text_file(lines, speaker_names)]
    /\ UNCHANGED <<app, casts, transcript, cast_to_voice, dir, op, nops,
                   line, parsed, speaker_names, lines, written>>

NextStrict == ReadTextFile

SpecStrict == InitStrict /\ [][NextStrict]_vars

\* The line at position i as the loop sees it: stripped.
StrictLine(i) == Strip(lines[i])

\* A line starts an utterance when its text up to the first ":" is a known name.
StartsUtterance(l, names) ==
    HasColon(l) /\ \E k \in 1..Len(names) :
        names[k] = SubSeq(l, 1, (CHOOSE i \in 1..Len(l) : l[i] = ":" /\ \A j \in 1..(i - 1) : l[j] # ":") - 1)

\* read_text_file as the claim has it, from line i on: `open` is the utterance
\* being built, <<>> when there is none yet.  An utterance is emitted with its
\* text stripped, and not at all when that is empty.
RECURSIVE ClaimedItems(_, _, _)
ClaimedItems(names, i, open) ==
    LET emit == IF open # <<>> /\ Strip(open[1].text) # <<>>
                THEN <<[text |-> Strip(open[1].text), speaker |-> open[1].speaker]>>
                ELSE <<>>
    IN IF i > Len(lines) THEN emit
       ELSE LET l == StrictLine(i) IN
            IF l = <<>> THEN ClaimedItems(names, i + 1, open)
            ELSE IF StartsUtterance(l, names)
            THEN LET c == Find(l, ":", 1) IN
                 emit \o ClaimedItems(names, i + 1,
                            <<[speaker |-> SubSeq(l, 1, c - 1),
                               text |-> Strip(SubSeq(l, c + 1, Len(l)))]>>)
            ELSE IF open # <<>>
            THEN ClaimedItems(names, i + 1,
                     <<[open[1] EXCEPT !.text = @ \o <<" ">> \o l]>>)
            ELSE ClaimedItems(names, i + 1, <<[speaker |-> names[1], text |-> l]>>)

\* C9: in strict mode a line whose text up to the first ":" is a known name
\* starts an utterance for that speaker and no other line starts one; such a
\* line is appended, after one space, to the text of the open utterance or,
\* when none is open yet, seeds an utterance for the first listed speaker;
\* utterances are emitted in the order of their defining lines and the speaker
\* of each is a known name.
C9_StrictModeAsClaimed ==
    ~dialogue.pending =>
        /\ dialogue.items = ClaimedItems(speaker_names, 1, <<>>)
        /\ \A i \in 1..Len(dialogue.items) :
              \E k \in 1..Len(speaker_names) : speaker_names[k] = dialogue.items[i].speaker

\* Names as the form's defaults are: not empty, with no ":".
PlainNames ==
    \A k \in 1..Len(speaker_names) : speaker_names[k] # <<>> /\ ~HasColon(speaker_names[k])

\* With such names read_text_file does what C9 says.
StrictModeWithPlainNames == PlainNames => C9_StrictModeAsClaimed

====
